---- MODULE Spec2Model ----
(***************************************************************************)
(* Model of the two pyATS job files                                        *)
(*   jobfiles/verify_iosxe_ospf_ipv4_neighbors_ip_addresses.py             *)
(*   jobfiles/verify_iosxe_ospf_ipv4_neighbors_status.py                   *)
(* and of the result types in utils/types.py.                              *)
(*                                                                         *)
(* Python dicts are modelled as TLA+ functions whose DOMAIN is the key     *)
(* set; a dict is iterated in insertion order, which is modelled by the    *)
(* fixed orders DeviceOrder, InterfaceOrder and NeighborOrder (the keys    *)
(* are numbered in the order the iterated dict lists them).                *)
(*                                                                         *)
(* self.failed(...) and self.passed(...) are the pyATS aetest result APIs: *)
(* they raise an aetest result signal (a BaseException, so "except         *)
(* Exception" does not catch it) that ends the running test section with   *)
(* that result.  A walk is therefore threaded through a record             *)
(*     [results |-> <the collector's Results>, signal |-> <the signal>]    *)
(* and every loop stops as soon as signal is set.  pyats is a dependency   *)
(* of the job files ("from pyats import aetest"), not part of them; with a *)
(* test double whose failed() and passed() simply return, the statements   *)
(* written after such a call ("continue", add_result, "return") would run, *)
(* which is what Running_DespiteSignal describes.                          *)
(***************************************************************************)
EXTENDS Integers, Sequences, FiniteSets, TLC

VARIABLES
    job,                  \* which job file runs: "ip_addresses" or "status"
    pc,                   \* position of the run
    mode,                 \* self.mode (RunningMode)
    devices,              \* testbed_adapter.devices, the target devices
    parsed_data,          \* what run_command_on_devices returned in this run
    parameters_file,      \* the persisted expected parameters (NoFile: none)
    current_state,        \* the tree gather_current_state returned
    expected_parameters,  \* the tree load_parameters_from_file returned
    results,              \* result_collector.results
    section,              \* the aetest result of the test section
    calls,                \* how often this run called save / load / compare
    saved,                \* save_parameters_to_file returned True in this run
    report,               \* what generate_job_report was given (NoReport: none)
    prev                  \* the previous run: its mode and whether it saved

vars == <<job, pc, mode, devices, parsed_data, parameters_file, current_state,
          expected_parameters, results, section, calls, saved, report, prev>>

---------------------------------------------------------------------------
(* utils/types.py *)

LEARNING == "learning"
TESTING == "testing"
RunningMode == {LEARNING, TESTING}

PASSED == "passed"
FAILED == "failed"
PASSX == "passx"
ABORTED == "aborted"
BLOCKED == "blocked"
SKIPPED == "skipped"
ERRORED == "errored"
INFO == "info"
ResultStatus == {PASSED, FAILED, PASSX, ABORTED, BLOCKED, SKIPPED, ERRORED, INFO}

Result(status, message) == [status |-> status, message |-> message]

---------------------------------------------------------------------------
(* The names the trees are built from. *)

Jobs == {"ip_addresses", "status"}

DeviceOrder == <<"R1", "R2">>
InterfaceOrder == <<"Gi0/1", "Gi0/2">>
NeighborOrder == <<"2.2.2.2", "3.3.3.3">>

Range(s) == {s[k] : k \in 1..Len(s)}

Devices == Range(DeviceOrder)

\* The adjacencies a tree may hold: R1 has two interfaces, the first with two
\* candidate neighbors; every other interface has one candidate neighbor.
InterfacesOf(d) == IF d = "R1" THEN {"Gi0/1", "Gi0/2"} ELSE {"Gi0/1"}
NeighborsOf(d, i) ==
    IF d = "R1" /\ i = "Gi0/1" THEN {"2.2.2.2", "3.3.3.3"} ELSE {"2.2.2.2"}

\* The attribute a job checks, and the values it may take.
Attribute(j) == IF j = "ip_addresses" THEN "address" ELSE "state"
AttributeValues(j) ==
    IF j = "ip_addresses" THEN {"10.0.0.2", "10.0.0.3"} ELSE {"FULL/DR", "INIT"}

\* Python's None, and dict.get(key, default).
None == "<None>"
Get(m, k, default) == IF k \in DOMAIN m THEN m[k] ELSE default

\* The keys of dict m in iteration order.
Keys(m, order) == SelectSeq(order, LAMBDA k : k \in DOMAIN m)

EmptyDict == <<>>

---------------------------------------------------------------------------
(* The fact trees: device -> interface -> {"neighbors": neighbor -> attrs} *)

AttributeMaps(j) == {[a \in {Attribute(j)} |-> v] : v \in AttributeValues(j)}

NeighborMaps(j, d, i) ==
    UNION {[S -> AttributeMaps(j)] : S \in SUBSET NeighborsOf(d, i)}

\* An interface entry; withEmpty allows an empty "neighbors" dict.
InterfaceEntries(j, d, i, withEmpty) ==
    {[neighbors |-> nm] : nm \in {m \in NeighborMaps(j, d, i) :
                                     withEmpty \/ DOMAIN m # {}}}

AllInterfaceEntries(j, d, withEmpty) ==
    UNION {InterfaceEntries(j, d, i, withEmpty) : i \in InterfacesOf(d)}

InterfaceMaps(j, d, withEmpty) ==
    UNION {{f \in [S -> AllInterfaceEntries(j, d, withEmpty)] :
              \A i \in S : f[i] \in InterfaceEntries(j, d, i, withEmpty)}
           : S \in SUBSET InterfacesOf(d)}

AllInterfaceMaps(j, withEmpty) ==
    UNION {InterfaceMaps(j, d, withEmpty) : d \in Devices}

FactTrees(j, withEmpty) ==
    UNION {{t \in [S -> AllInterfaceMaps(j, withEmpty)] :
              \A d \in S : t[d] \in InterfaceMaps(j, d, withEmpty)}
           : S \in SUBSET Devices}

\* What gather_current_state can return: no interface without neighbors.
ObservedTreesIP == FactTrees("ip_addresses", FALSE)
ObservedTreesStatus == FactTrees("status", FALSE)
ObservedTrees(j) == IF j = "ip_addresses" THEN ObservedTreesIP ELSE ObservedTreesStatus
\* What a parameters file can hold.
ExpectedTreesIP == FactTrees("ip_addresses", TRUE)
ExpectedTreesStatus == FactTrees("status", TRUE)
ExpectedTrees(j) == IF j = "ip_addresses" THEN ExpectedTreesIP ELSE ExpectedTreesStatus

---------------------------------------------------------------------------
(* The Result Collector (utils.adapters, not among the sources): add_result *)
(* appends in call order, status is the highest-severity status present and *)
(* PASSED when no failing status is present, also for no Results at all.    *)

add_result(rs, status, message) == Append(rs, Result(status, message))

HasStatus(rs, st) == \E k \in 1..Len(rs) : rs[k].status = st

\* Mutant of OverallStatus: the status of the last Result decides.
OverallStatus_LastDecides(rs) ==
    IF rs # <<>> /\ rs[Len(rs)].status = FAILED THEN FAILED ELSE PASSED

OverallStatus(rs) ==
    IF HasStatus(rs, FAILED) THEN FAILED
    ELSE IF HasStatus(rs, ERRORED) THEN ERRORED
    ELSE IF HasStatus(rs, ABORTED) THEN ABORTED
    ELSE IF HasStatus(rs, BLOCKED) THEN BLOCKED
    ELSE PASSED

---------------------------------------------------------------------------
(* pyATS aetest result APIs.  A walk state w is [results, signal]. *)

NoSignal == [result |-> "none", reason |-> [text |-> ""]]

Walk(rs) == [results |-> rs, signal |-> NoSignal]

\* Mutant of Running: a result signal does not end the section.
Running_DespiteSignal(w) == TRUE

Running(w) == w.signal = NoSignal

\* testbed_adapter.result_collector.add_result(status=..., message=...)
Add(w, status, message) ==
    [w EXCEPT !.results = add_result(@, status, message)]

\* self.failed(msg) / self.passed(msg): the section ends with that result.
self_failed(w, msg) == [w EXCEPT !.signal = [result |-> FAILED, reason |-> msg]]
self_passed(w, msg) == [w EXCEPT !.signal = [result |-> PASSED, reason |-> msg]]

---------------------------------------------------------------------------
(* compare_expected_parameters_to_current_state: the messages.  A message  *)
(* is its f-string with the values it interpolates.                        *)

MsgDeviceNotFound(expected_device_name) ==
    [text |-> "Expected device {expected_device_name} not found in current state",
     expected_device_name |-> expected_device_name]

MsgDeviceFound(expected_device_name) ==
    [text |-> "Found expected device {expected_device_name} in current state",
     expected_device_name |-> expected_device_name]

MsgInterfaceNotFound(interface_name, expected_device_name) ==
    [text |-> "Interface {interface_name} not found in current state for device {expected_device_name}",
     interface_name |-> interface_name,
     expected_device_name |-> expected_device_name]

MsgInterfaceFound(j, interface_name, expected_device_name) ==
    IF j = "ip_addresses"
    THEN [text |-> "Found expected interface {interface_name}",
          interface_name |-> interface_name]
    ELSE [text |-> "Found expected interface {interface_name} in current state for device {expected_device_name}",
          interface_name |-> interface_name,
          expected_device_name |-> expected_device_name]

MsgNeighborCount(actual_neighbors, expected_neighbors) ==
    [text |-> "Found {len(actual_neighbors)} neighbors, expecting {len(expected_neighbors)}",
     len_actual_neighbors |-> Cardinality(DOMAIN actual_neighbors),
     len_expected_neighbors |-> Cardinality(DOMAIN expected_neighbors)]

MsgNeighborNotFound(neighbor_id, interface_name, expected_device_name) ==
    [text |-> "Neighbor {neighbor_id} on interface {interface_name} not found in current state for device {expected_device_name}",
     neighbor_id |-> neighbor_id,
     interface_name |-> interface_name,
     expected_device_name |-> expected_device_name]

MsgNeighborMismatch(j, neighbor_id, interface_name, current_value, expected_value) ==
    [text |-> IF j = "ip_addresses"
              THEN "The current IP address of neighbor {neighbor_id} on interface {interface_name} is {current_neighbor_address}, which does not match the expected IP address of this neighbor which is {expected_neighbor_address}"
              ELSE "The current state of neighbor {neighbor_id} on interface {interface_name} is {current_neighbor_state}, which does not match the expected state of this neighbor which is {expected_neighbor_state}",
     neighbor_id |-> neighbor_id,
     interface_name |-> interface_name,
     current_value |-> current_value,
     expected_value |-> expected_value]

MsgNeighborMatch(j, neighbor_id, current_value) ==
    [text |-> IF j = "ip_addresses"
              THEN "Neighbor {neighbor_id} IP address matches expected: {current_neighbor_address}"
              ELSE "Neighbor {neighbor_id} state matches expected: {current_neighbor_state}",
     neighbor_id |-> neighbor_id,
     current_value |-> current_value]

---------------------------------------------------------------------------
(* compare_expected_parameters_to_current_state: the walk. *)

\* "if expected_device_name not in current_state"
DeviceMissing(current, expected_device_name) ==
    expected_device_name \notin DOMAIN current

\* "if interface_name not in current_state[expected_device_name]"
InterfaceMissing(current_device, interface_name) ==
    interface_name \notin DOMAIN current_device

\* "if neighbor_id not in actual_neighbors"
NeighborMissing(actual_neighbors, neighbor_id) ==
    neighbor_id \notin DOMAIN actual_neighbors

\* Mutants of ValueMismatch: the test inverted, and the test dropped.
ValueMismatch_Inverted(current_value, expected_value) == current_value = expected_value
ValueMismatch_Never(current_value, expected_value) == FALSE

\* "if current_neighbor_address != expected_neighbor_address"
\* (status job: current_neighbor_state != expected_neighbor_state)
ValueMismatch(current_value, expected_value) == current_value # expected_value

\* Mutants of CountStatus: the count Result appended as FAILED, and as FAILED
\* when the counts differ.
CountStatus_Failed(actual_neighbors, expected_neighbors) == FAILED
CountStatus_FailedOnDifference(actual_neighbors, expected_neighbors) ==
    IF Cardinality(DOMAIN actual_neighbors) # Cardinality(DOMAIN expected_neighbors)
    THEN FAILED ELSE INFO

\* The status of the neighbor-count Result: "status=ResultStatus.INFO".
CountStatus(actual_neighbors, expected_neighbors) == INFO

\* One expected neighbor of a found interface.
CompareNeighbor(j, w, dev, ifc, neighbor_id, expected_neighbor_data, actual_neighbors) ==
    IF NeighborMissing(actual_neighbors, neighbor_id)
    THEN self_failed(Add(w, FAILED, MsgNeighborNotFound(neighbor_id, ifc, dev)),
                     MsgNeighborNotFound(neighbor_id, ifc, dev))
    ELSE LET current_value == Get(actual_neighbors[neighbor_id], Attribute(j), None)
             expected_value == Get(expected_neighbor_data, Attribute(j), None)
         IN  IF ValueMismatch(current_value, expected_value)
             THEN self_failed(
                    Add(w, FAILED, MsgNeighborMismatch(j, neighbor_id, ifc,
                                                       current_value, expected_value)),
                    MsgNeighborMismatch(j, neighbor_id, ifc, current_value, expected_value))
             ELSE Add(w, PASSED, MsgNeighborMatch(j, neighbor_id, current_value))

\* "for neighbor_id, expected_neighbor_data in expected_neighbors.items()"
RECURSIVE CompareNeighbors(_, _, _, _, _, _, _)
CompareNeighbors(j, w, dev, ifc, expected_neighbors, actual_neighbors, todo) ==
    IF todo = <<>> \/ ~Running(w) THEN w
    ELSE CompareNeighbors(j,
            CompareNeighbor(j, w, dev, ifc, Head(todo),
                            expected_neighbors[Head(todo)], actual_neighbors),
            dev, ifc, expected_neighbors, actual_neighbors, Tail(todo))

\* Mutant of CompareInterface: the count Result is appended before the
\* Result for the found interface.
CompareInterface_CountFirst(j, w, dev, interface_name, interface_data, current_device) ==
    IF InterfaceMissing(current_device, interface_name)
    THEN self_failed(Add(w, FAILED, MsgInterfaceNotFound(interface_name, dev)),
                     MsgInterfaceNotFound(interface_name, dev))
    ELSE LET expected_neighbors == Get(interface_data, "neighbors", EmptyDict)
             actual_neighbors == Get(current_device[interface_name], "neighbors", EmptyDict)
             counted == Add(w, CountStatus(actual_neighbors, expected_neighbors),
                            MsgNeighborCount(actual_neighbors, expected_neighbors))
             found == Add(counted, PASSED, MsgInterfaceFound(j, interface_name, dev))
         IN  CompareNeighbors(j, found, dev, interface_name, expected_neighbors,
                              actual_neighbors, Keys(expected_neighbors, NeighborOrder))

\* One expected interface of a found device.
CompareInterface(j, w, dev, interface_name, interface_data, current_device) ==
    IF InterfaceMissing(current_device, interface_name)
    THEN self_failed(Add(w, FAILED, MsgInterfaceNotFound(interface_name, dev)),
                     MsgInterfaceNotFound(interface_name, dev))
    ELSE LET expected_neighbors == Get(interface_data, "neighbors", EmptyDict)
             actual_neighbors == Get(current_device[interface_name], "neighbors", EmptyDict)
             found == Add(w, PASSED, MsgInterfaceFound(j, interface_name, dev))
             counted == Add(found, CountStatus(actual_neighbors, expected_neighbors),
                            MsgNeighborCount(actual_neighbors, expected_neighbors))
         IN  CompareNeighbors(j, counted, dev, interface_name, expected_neighbors,
                              actual_neighbors, Keys(expected_neighbors, NeighborOrder))

\* "for interface_name, interface_data in expected_device_data.items()"
RECURSIVE CompareInterfaces(_, _, _, _, _, _)
CompareInterfaces(j, w, dev, expected_device_data, current_device, todo) ==
    IF todo = <<>> \/ ~Running(w) THEN w
    ELSE CompareInterfaces(j,
            CompareInterface(j, w, dev, Head(todo), expected_device_data[Head(todo)],
                             current_device),
            dev, expected_device_data, current_device, Tail(todo))

\* One expected device.
CompareDevice(j, w, expected_device_name, expected_device_data, current) ==
    IF DeviceMissing(current, expected_device_name)
    THEN self_failed(Add(w, FAILED, MsgDeviceNotFound(expected_device_name)),
                     MsgDeviceNotFound(expected_device_name))
    ELSE CompareInterfaces(j, Add(w, PASSED, MsgDeviceFound(expected_device_name)),
                           expected_device_name, expected_device_data,
                           current[expected_device_name],
                           Keys(expected_device_data, InterfaceOrder))

\* "for expected_device_name, expected_device_data in expected_parameters.items()"
RECURSIVE CompareDevices(_, _, _, _, _)
CompareDevices(j, w, current, expected, todo) ==
    IF todo = <<>> \/ ~Running(w) THEN w
    ELSE CompareDevices(j,
            CompareDevice(j, w, Head(todo), expected[Head(todo)], current),
            current, expected, Tail(todo))

compare_expected_parameters_to_current_state(j, w, current, expected) ==
    CompareDevices(j, w, current, expected, Keys(expected, DeviceOrder))


---------------------------------------------------------------------------
(* gather_current_state: the messages. *)

MsgNoData(device_name) ==
    [text |-> "No OSPF data found for device {device.name}",
     device_name |-> device_name]

MsgNoInterfaces(device_name) ==
    [text |-> "No OSPF interfaces found on {device.name}",
     device_name |-> device_name]

MsgFoundNeighbor(j, neighbor_id, value) ==
    [text |-> IF j = "ip_addresses"
              THEN "Found neighbor {neighbor_id} with IP {neighbor_data.get('address', '')}"
              ELSE "Found neighbor {neighbor_id} in state {neighbor_data.get('state', '')}",
     neighbor_id |-> neighbor_id,
     value |-> value]

MsgGathered(device_name) ==
    [text |-> "Successfully gathered OSPF data from {device.name}",
     device_name |-> device_name]

---------------------------------------------------------------------------
(* gather_current_state: the walk over the target devices.  parsed_data    *)
(* maps a device name to execution_result.data; a device without a probe   *)
(* result is no key of it (parsed_data.get(device.name) is None).          *)

\* m[k] = v
Put(m, k, v) == [x \in DOMAIN m \cup {k} |-> IF x = k THEN v ELSE m[x]]

\* "if execution_result is None"
NoExecutionResult(pd, device_name) == device_name \notin DOMAIN pd

\* "if 'interfaces' not in data or not data['interfaces']"
NoInterfaces(data) ==
    "interfaces" \notin DOMAIN data \/ data["interfaces"] = EmptyDict

\* Mutant of NoNeighbors: only the missing key is tested.
NoNeighbors_KeyOnly(interface_data) == "neighbors" \notin DOMAIN interface_data

\* "if 'neighbors' not in interface_data or not interface_data['neighbors']"
NoNeighbors(interface_data) ==
    "neighbors" \notin DOMAIN interface_data \/ interface_data["neighbors"] = EmptyDict

\* {"address": neighbor_data.get("address", "")}   (status job: "state")
GatheredAttributes(j, neighbor_data) ==
    [a \in {Attribute(j)} |-> Get(neighbor_data, a, "")]

\* "for neighbor_id, neighbor_data in interface_data['neighbors'].items()"
\* g is [results, signal, data], data being device_ospf_data.
RECURSIVE GatherNeighbors(_, _, _, _, _)
GatherNeighbors(j, g, interface_name, neighbors, todo) ==
    IF todo = <<>> THEN g
    ELSE LET neighbor_id == Head(todo)
             attrs == GatheredAttributes(j, neighbors[neighbor_id])
             entry == [neighbors |->
                          Put(g.data[interface_name].neighbors, neighbor_id, attrs)]
             stored == [g EXCEPT !.data = Put(g.data, interface_name, entry)]
         IN  GatherNeighbors(j,
                Add(stored, INFO,
                    MsgFoundNeighbor(j, neighbor_id, attrs[Attribute(j)])),
                interface_name, neighbors, Tail(todo))

GatherInterface(j, g, interface_name, interface_data) ==
    IF NoNeighbors(interface_data) THEN g
    ELSE LET created ==
                 IF interface_name \notin DOMAIN g.data
                 THEN [g EXCEPT !.data = Put(g.data, interface_name,
                                             [neighbors |-> EmptyDict])]
                 ELSE g
         IN  GatherNeighbors(j, created, interface_name, interface_data["neighbors"],
                             Keys(interface_data["neighbors"], NeighborOrder))

\* "for interface_name, interface_data in data['interfaces'].items()"
RECURSIVE GatherInterfaces(_, _, _, _)
GatherInterfaces(j, g, interfaces, todo) ==
    IF todo = <<>> THEN g
    ELSE GatherInterfaces(j, GatherInterface(j, g, Head(todo), interfaces[Head(todo)]),
                          interfaces, Tail(todo))

\* One target device.  w is [results, signal, all_devices_data].
GatherDevice(j, w, device_name, pd) ==
    IF NoExecutionResult(pd, device_name)
    THEN self_failed(Add(w, FAILED, MsgNoData(device_name)), MsgNoData(device_name))
    ELSE LET data == pd[device_name]
         IN  IF NoInterfaces(data)
             THEN Add([w EXCEPT !.all_devices_data = Put(@, device_name, EmptyDict)],
                      INFO, MsgNoInterfaces(device_name))
             ELSE LET g == GatherInterfaces(j,
                              [results |-> w.results, signal |-> w.signal,
                               data |-> EmptyDict],
                              data["interfaces"],
                              Keys(data["interfaces"], InterfaceOrder))
                  IN  Add([w EXCEPT !.results = g.results,
                                    !.all_devices_data = Put(@, device_name, g.data)],
                          PASSED, MsgGathered(device_name))

\* "for device in testbed_adapter.devices.values()"
RECURSIVE GatherDevices(_, _, _, _)
GatherDevices(j, w, pd, todo) ==
    IF todo = <<>> \/ ~Running(w) THEN w
    ELSE GatherDevices(j, GatherDevice(j, w, Head(todo), pd), pd, Tail(todo))

gather_current_state(j, w, devs, pd) ==
    GatherDevices(j, [results |-> w.results, signal |-> w.signal,
                      all_devices_data |-> EmptyDict], pd, devs)

---------------------------------------------------------------------------
(* The Snapshot Store (utils.parameters, not among the sources):           *)
(* save(tree) -> bool, false signals a hard failure; load() -> tree|empty, *)
(* empty signals "never learned".                                          *)

NoFile == [nofile |-> TRUE]

save_parameters_to_file(file, tree, ok) == IF ok THEN tree ELSE file

load_parameters_from_file(file) == IF file = NoFile THEN EmptyDict ELSE file

---------------------------------------------------------------------------
(* verify_ospf_neighbors_ip_addresses: the test section of the IP job.     *)

MsgLearned ==
    [text |-> "Successfully learned OSPF neighbor IP addresses and saved to parameters file"]
MsgSaveFailed ==
    [text |-> "Failed to save OSPF neighbor IP addresses to parameters file"]
MsgNoExpected ==
    [text |-> "No expected parameters found. Run in learning mode first."]
MsgAllVerified ==
    [text |-> "All OSPF neighbor IP addresses on all devices verified successfully"]

\* Mutant of ModeBranch: every run takes the learning branch.
ModeBranch_AlwaysLearning(m) == "save"

\* "if self.mode == 'learning': ... else:  # testing mode"
ModeBranch(m) == IF m = "learning" THEN "save" ELSE "load"

\* A statement that follows a result API call in the section: it runs only
\* if no signal ended the section.
AddIfRunning(w, status, message) ==
    IF Running(w) THEN Add(w, status, message) ELSE w

\* "if save_parameters_to_file(...)": self.passed(result_msg), then add_result;
\* else: self.failed(result_msg), then add_result.
LearningBranch(w, ok) ==
    IF ok
    THEN AddIfRunning(self_passed(w, MsgLearned), PASSED, MsgLearned)
    ELSE AddIfRunning(self_failed(w, MsgSaveFailed), FAILED, MsgSaveFailed)

\* "if not expected_parameters": self.failed(result_msg), add_result, return.
NoExpectedBranch(w) ==
    AddIfRunning(self_failed(w, MsgNoExpected), FAILED, MsgNoExpected)

\* The try block: compare, then self.passed(result_msg), then add_result.
\* The signals compare raises are no Exception: "except Exception" is passed.
TestingBranch(j, w, current, expected) ==
    LET compared == compare_expected_parameters_to_current_state(j, w, current, expected)
    IN  IF Running(compared)
        THEN AddIfRunning(self_passed(compared, MsgAllVerified), PASSED, MsgAllVerified)
        ELSE compared

---------------------------------------------------------------------------
(* Spec: runs of the IP job, one after another, on one testbed and one     *)
(* parameters file, which at first is missing or holds any expected tree.  *)

Unset == [unset |-> TRUE]
NoCalls == [save |-> 0, load |-> 0, compare |-> 0]
NoReport == [results |-> <<>>, status |-> "none"]
NoRun == [mode |-> "none", saved |-> FALSE]

\* testbed_adapter.devices: the target devices, in order.
Testbeds == {<<>>, <<"R1">>, <<"R2">>, <<"R1", "R2">>}

\* execution_result.data of one device: no "interfaces" key, or the interfaces.
DeviceData(d) ==
    {EmptyDict} \cup {[interfaces |-> im] : im \in InterfaceMaps("ip_addresses", d, FALSE)}

AllDeviceData == UNION {DeviceData(d) : d \in Devices}

AllParsedData ==
    UNION {{pd \in [S -> AllDeviceData] : \A d \in S : pd[d] \in DeviceData(d)}
           : S \in SUBSET Devices}

\* What run_command_on_devices can return for the target devices devs.
ParsedData(devs) == {pd \in AllParsedData : DOMAIN pd \subseteq Range(devs)}

Init ==
    /\ job = "ip_addresses"
    /\ pc = "idle"
    /\ mode = "none"
    /\ devices \in Testbeds
    /\ parsed_data = Unset
    /\ parameters_file \in {NoFile} \cup ExpectedTreesIP
    /\ current_state = Unset
    /\ expected_parameters = Unset
    /\ results = <<>>
    /\ section = NoSignal
    /\ calls = NoCalls
    /\ saved = FALSE
    /\ report = NoReport
    /\ prev = NoRun

\* A run starts: a fresh collector, and setup() sets self.mode.
Setup ==
    /\ pc \in {"idle", "done"}
    /\ \E m \in RunningMode : mode' = m
    /\ prev' = IF pc = "idle" THEN NoRun ELSE [mode |-> mode, saved |-> saved]
    /\ parsed_data' = Unset
    /\ current_state' = Unset
    /\ expected_parameters' = Unset
    /\ results' = <<>>
    /\ section' = NoSignal
    /\ calls' = NoCalls
    /\ saved' = FALSE
    /\ report' = NoReport
    /\ pc' = "gather"
    /\ UNCHANGED <<job, devices, parameters_file>>

\* current_state = self.gather_current_state(testbed_adapter)
GatherCurrentState ==
    /\ pc = "gather"
    /\ \E pd \in ParsedData(devices) :
         /\ parsed_data' = pd
         /\ LET w == gather_current_state(job, Walk(results), devices, pd)
            IN  /\ results' = w.results
                /\ section' = w.signal
                /\ current_state' = IF Running(w) THEN w.all_devices_data ELSE Unset
                /\ pc' = IF ~Running(w) THEN "cleanup" ELSE ModeBranch(mode)
    /\ UNCHANGED <<job, mode, devices, parameters_file, expected_parameters,
                   calls, saved, report, prev>>

\* LEARNING MODE: save the collected data to the parameters file.
SaveParameters ==
    /\ pc = "save"
    /\ \E ok \in BOOLEAN :
         /\ parameters_file' = save_parameters_to_file(parameters_file, current_state, ok)
         /\ saved' = ok
         /\ LET w == LearningBranch(Walk(results), ok)
            IN  /\ results' = w.results
                /\ section' = w.signal
    /\ calls' = [calls EXCEPT !.save = @ + 1]
    /\ pc' = "cleanup"
    /\ UNCHANGED <<job, mode, devices, parsed_data, current_state,
                   expected_parameters, report, prev>>

\* TESTING MODE: load the expected parameters.
LoadParameters ==
    /\ pc = "load"
    /\ expected_parameters' = load_parameters_from_file(parameters_file)
    /\ calls' = [calls EXCEPT !.load = @ + 1]
    /\ IF expected_parameters' = EmptyDict
       THEN LET w == NoExpectedBranch(Walk(results))
            IN  /\ results' = w.results
                /\ section' = w.signal
                /\ pc' = "cleanup"
       ELSE /\ pc' = "compare"
            /\ UNCHANGED <<results, section>>
    /\ UNCHANGED <<job, mode, devices, parsed_data, parameters_file, current_state,
                   saved, report, prev>>

\* TESTING MODE: compare the current state to the expected parameters.
CompareToExpected ==
    /\ pc = "compare"
    /\ LET w == TestingBranch(job, Walk(results), current_state, expected_parameters)
       IN  /\ results' = w.results
           /\ section' = w.signal
    /\ calls' = [calls EXCEPT !.compare = @ + 1]
    /\ pc' = "cleanup"
    /\ UNCHANGED <<job, mode, devices, parsed_data, parameters_file, current_state,
                   expected_parameters, saved, report, prev>>

\* The status job passes generate_job_report the keyword argument
\* command_executions, which the function of utils/reports.py does not take:
\* the call raises TypeError and no report is generated.
ReportRaisedTypeError == [results |-> <<>>, status |-> "TypeError"]

\* CommonCleanup.add_results_to_report of job j: what generate_job_report is
\* given, in testing mode only.
add_results_to_report(j, m, rs) ==
    IF m # TESTING THEN NoReport
    ELSE IF j = "status" THEN ReportRaisedTypeError
    ELSE [results |-> rs, status |-> OverallStatus(rs)]

\* CommonCleanup.add_results_to_report
AddResultsToReport ==
    /\ pc = "cleanup"
    /\ report' = add_results_to_report(job, mode, results)
    /\ pc' = "done"
    /\ UNCHANGED <<job, mode, devices, parsed_data, parameters_file, current_state,
                   expected_parameters, results, section, calls, saved, prev>>

Next ==
    \/ Setup
    \/ GatherCurrentState
    \/ SaveParameters
    \/ LoadParameters
    \/ CompareToExpected
    \/ AddResultsToReport

Spec == Init /\ [][Next]_vars

---------------------------------------------------------------------------
(* SpecCompare: compare_expected_parameters_to_current_state applied to    *)
(* every pair of an observed and a non-empty expected tree (both jobs call  *)
(* it only with a non-empty expected tree), on an empty collector; then    *)
(* applied once more to an observed tree that holds additional facts which *)
(* do not occur in the expected tree.                                      *)

Unused == "unused"

\* o2 holds every fact of o, and every fact of o2 that o lacks does not
\* occur in the expected tree e.
ExtendsOutside(o2, o, e) ==
    /\ \A d \in DOMAIN o :
         /\ d \in DOMAIN o2
         /\ \A i \in DOMAIN o[d] :
              /\ i \in DOMAIN o2[d]
              /\ \A n \in DOMAIN o[d][i].neighbors :
                   /\ n \in DOMAIN o2[d][i].neighbors
                   /\ o2[d][i].neighbors[n] = o[d][i].neighbors[n]
    /\ \A d \in DOMAIN o2 :
         /\ d \notin DOMAIN o => d \notin DOMAIN e
         /\ \A i \in DOMAIN o2[d] :
              /\ (d \notin DOMAIN o \/ i \notin DOMAIN o[d])
                    => ~(d \in DOMAIN e /\ i \in DOMAIN e[d])
              /\ \A n \in DOMAIN o2[d][i].neighbors :
                   (d \notin DOMAIN o \/ i \notin DOMAIN o[d]
                        \/ n \notin DOMAIN o[d][i].neighbors)
                    => ~(/\ d \in DOMAIN e
                         /\ i \in DOMAIN e[d]
                         /\ n \in DOMAIN Get(e[d][i], "neighbors", EmptyDict))

InitCompare ==
    /\ job \in Jobs
    /\ pc = "compare"
    /\ mode = TESTING
    /\ devices = <<>>
    /\ parsed_data = Unused
    /\ parameters_file = Unused
    /\ current_state \in ObservedTrees(job)
    /\ expected_parameters \in ExpectedTrees(job) \ {EmptyDict}
    /\ results = <<>>
    /\ section = NoSignal
    /\ calls = NoCalls
    /\ saved = FALSE
    /\ report = Unused
    /\ prev = Unused

CallCompare ==
    /\ pc = "compare"
    /\ LET w == compare_expected_parameters_to_current_state(
                    job, Walk(results), current_state, expected_parameters)
       IN  /\ results' = w.results
           /\ section' = w.signal
    /\ pc' = "compared"
    /\ calls' = [calls EXCEPT !.compare = @ + 1]
    /\ UNCHANGED <<job, mode, devices, parsed_data, parameters_file,
                   current_state, expected_parameters, saved, report, prev>>

CallCompareExtended ==
    /\ pc = "compared"
    /\ calls.compare = 1
    /\ \E o2 \in ObservedTrees(job) :
         /\ o2 # current_state
         /\ ExtendsOutside(o2, current_state, expected_parameters)
         /\ current_state' = o2
         /\ LET w == compare_expected_parameters_to_current_state(
                         job, Walk(<<>>), o2, expected_parameters)
            IN  /\ results' = w.results
                /\ section' = w.signal
    /\ pc' = "compared"
    /\ calls' = [calls EXCEPT !.compare = @ + 1]
    /\ UNCHANGED <<job, mode, devices, parsed_data, parameters_file,
                   expected_parameters, saved, report, prev>>

NextCompare == CallCompare \/ CallCompareExtended

SpecCompare == InitCompare /\ [][NextCompare]_vars

---------------------------------------------------------------------------
(* Helpers of the properties. *)

Statuses(rs) == [k \in 1..Len(rs) |-> rs[k].status]

Count(rs, r) == Cardinality({k \in 1..Len(rs) : rs[k] = r})

CountStatusOf(rs, st) == Cardinality({k \in 1..Len(rs) : rs[k].status = st})

\* The message names the value v in its field f.
Names(msg, f, v) == f \in DOMAIN msg /\ msg[f] = v

ExpectedNeighbors(e, d, i) == Get(e[d][i], "neighbors", EmptyDict)

\* The expected neighbors (d, i, n) that the observed tree holds as well.
FoundNeighbors(o, e) ==
    {p \in Devices \X Range(InterfaceOrder) \X Range(NeighborOrder) :
        /\ p[1] \in DOMAIN e /\ p[1] \in DOMAIN o
        /\ p[2] \in DOMAIN e[p[1]] /\ p[2] \in DOMAIN o[p[1]]
        /\ p[3] \in DOMAIN ExpectedNeighbors(e, p[1], p[2])
        /\ p[3] \in DOMAIN o[p[1]][p[2]].neighbors}

ObservedValue(j, o, p) == Get(o[p[1]][p[2]].neighbors[p[3]], Attribute(j), None)
ExpectedValue(j, e, p) == Get(ExpectedNeighbors(e, p[1], p[2])[p[3]], Attribute(j), None)

---------------------------------------------------------------------------
(* C1: when the observed and the expected tree are identical, compare      *)
(* appends no FAILED Result and the collector's overall status after the   *)
(* call is PASSED.                                                         *)
C1_IdenticalTreesPass ==
    (pc = "compared" /\ current_state = expected_parameters)
        => /\ ~HasStatus(results, FAILED)
           /\ OverallStatus(results) = PASSED
           /\ section = NoSignal

C1_Witness ==
    /\ pc = "compared"
    /\ current_state = expected_parameters
    /\ DOMAIN current_state = Devices
    /\ DOMAIN current_state["R1"] = {"Gi0/1", "Gi0/2"}
    /\ DOMAIN current_state["R1"]["Gi0/1"].neighbors = {"2.2.2.2", "3.3.3.3"}
    /\ CountStatusOf(results, PASSED) = 9
    /\ CountStatusOf(results, INFO) = 3

(* C3: for every expected device that is absent from the observed tree,    *)
(* compare appends exactly one FAILED Result naming that device, and no    *)
(* other Result that names the device.                                     *)
C3_EveryAbsentDeviceFlaggedOnce ==
    pc = "compared" =>
        \A d \in DOMAIN expected_parameters \ DOMAIN current_state :
            /\ Count(results, Result(FAILED, MsgDeviceNotFound(d))) = 1
            /\ \A k \in 1..Len(results) :
                 Names(results[k].message, "expected_device_name", d)
                    => results[k] = Result(FAILED, MsgDeviceNotFound(d))

(* C4: for every expected interface that is absent under a device the      *)
(* observed tree holds, compare appends exactly one FAILED Result for that *)
(* interface, and no neighbor-level Result naming that interface and       *)
(* device.                                                                 *)
C4_EveryAbsentInterfaceFlaggedOnce ==
    pc = "compared" =>
        \A d \in DOMAIN expected_parameters \cap DOMAIN current_state :
            \A i \in DOMAIN expected_parameters[d] \ DOMAIN current_state[d] :
                /\ Count(results, Result(FAILED, MsgInterfaceNotFound(i, d))) = 1
                /\ \A k \in 1..Len(results) :
                     (/\ Names(results[k].message, "expected_device_name", d)
                      /\ Names(results[k].message, "interface_name", i))
                        => results[k] = Result(FAILED, MsgInterfaceNotFound(i, d))

(* C5: for every expected neighbor the observed tree holds, compare        *)
(* appends exactly one Result whose message names the neighbor, the        *)
(* interface and the device: a FAILED one that also names the actual and   *)
(* the expected value when the values differ, a PASSED one when they are   *)
(* equal.                                                                  *)
C5_NeighborResultNamesAll ==
    pc = "compared" =>
        \A p \in FoundNeighbors(current_state, expected_parameters) :
            LET cur == ObservedValue(job, current_state, p)
                exp == ExpectedValue(job, expected_parameters, p)
                hits == {k \in 1..Len(results) :
                           /\ results[k].status = IF cur # exp THEN FAILED ELSE PASSED
                           /\ Names(results[k].message, "neighbor_id", p[3])
                           /\ Names(results[k].message, "interface_name", p[2])
                           /\ Names(results[k].message, "expected_device_name", p[1])
                           /\ cur # exp =>
                                /\ Names(results[k].message, "current_value", cur)
                                /\ Names(results[k].message, "expected_value", exp)}
            IN  Cardinality(hits) = 1

(* C6: compare is one-directional: applied to an observed tree that holds  *)
(* additional devices, interfaces or neighbors which do not occur in the   *)
(* expected tree, it appends Results with the same statuses in the same    *)
(* order.                                                                  *)
C6_OneDirectional ==
    [][(pc = "compared" /\ pc' = "compared")
          => Statuses(results') = Statuses(results)]_vars

C6_Witness ==
    /\ pc = "compared"
    /\ calls.compare = 2
    /\ DOMAIN current_state = Devices
    /\ DOMAIN expected_parameters = {"R1"}
    /\ DOMAIN expected_parameters["R1"] = {"Gi0/1"}
    /\ DOMAIN ExpectedNeighbors(expected_parameters, "R1", "Gi0/1") = {"2.2.2.2"}
    /\ DOMAIN current_state["R1"] = {"Gi0/1", "Gi0/2"}
    /\ DOMAIN current_state["R1"]["Gi0/1"].neighbors = {"2.2.2.2", "3.3.3.3"}
    /\ Statuses(results) = <<PASSED, PASSED, INFO, PASSED>>

ContainsFULL(v) == v \in {"FULL/DR"}

(* C10: the status job passes a found neighbor only if its current state   *)
(* contains "FULL", and fails it when it does not.                         *)
C10_StatusJobRequiresFULL ==
    (job = "status" /\ pc = "compared") =>
        \A p \in FoundNeighbors(current_state, expected_parameters) :
            LET cur == ObservedValue(job, current_state, p)
            IN  /\ Result(PASSED, MsgNeighborMatch(job, p[3], cur)) \in Range(results)
                    => ContainsFULL(cur)
                /\ (~ContainsFULL(cur) /\ section = NoSignal)
                    => \E k \in 1..Len(results) :
                          /\ results[k].status = FAILED
                          /\ Names(results[k].message, "neighbor_id", p[3])

---------------------------------------------------------------------------
(* SpecCollector: the Result Collector on its own, given Results of every  *)
(* status.                                                                 *)

MaxResults == 3

MsgAny == [text |-> "result"]

InitCollector ==
    /\ job = "ip_addresses"
    /\ pc = "collect"
    /\ mode = "none"
    /\ devices = <<>>
    /\ parsed_data = Unused
    /\ parameters_file = Unused
    /\ current_state = Unused
    /\ expected_parameters = Unused
    /\ results = <<>>
    /\ section = NoSignal
    /\ calls = NoCalls
    /\ saved = FALSE
    /\ report = [results |-> <<>>, status |-> OverallStatus(<<>>)]
    /\ prev = Unused

\* result_collector.add_result(status, message), and the status it then has.
AddResult ==
    /\ pc = "collect"
    /\ Len(results) < MaxResults
    /\ \E st \in ResultStatus : results' = add_result(results, st, MsgAny)
    /\ report' = [results |-> results', status |-> OverallStatus(results')]
    /\ UNCHANGED <<job, pc, mode, devices, parsed_data, parameters_file,
                   current_state, expected_parameters, section, calls, saved, prev>>

NextCollector == AddResult

SpecCollector == InitCollector /\ [][NextCollector]_vars

---------------------------------------------------------------------------
(* SpecCleanup: CommonCleanup.add_results_to_report of either job, in      *)
(* either mode, on a collector that holds any Results.                     *)

CollectedResults ==
    UNION {[1..n -> {Result(st, MsgAny) : st \in ResultStatus}] : n \in 0..MaxResults}

InitCleanup ==
    /\ job \in Jobs
    /\ pc = "cleanup"
    /\ mode \in RunningMode
    /\ devices = <<>>
    /\ parsed_data = Unused
    /\ parameters_file = Unused
    /\ current_state = Unused
    /\ expected_parameters = Unused
    /\ results \in CollectedResults
    /\ section = NoSignal
    /\ calls = NoCalls
    /\ saved = FALSE
    /\ report = NoReport
    /\ prev = Unused

NextCleanup == AddResultsToReport

SpecCleanup == InitCleanup /\ [][NextCleanup]_vars

---------------------------------------------------------------------------
(* Properties of runs of the IP job (Spec) and of the collector.           *)

\* Every expected device, interface and neighbor is in o, with the expected
\* value of the checked attribute.
ExpectedSatisfied(j, o, e) ==
    \A d \in DOMAIN e :
        /\ d \in DOMAIN o
        /\ \A i \in DOMAIN e[d] :
             /\ i \in DOMAIN o[d]
             /\ \A n \in DOMAIN ExpectedNeighbors(e, d, i) :
                  /\ n \in DOMAIN o[d][i].neighbors
                  /\ ObservedValue(j, o, <<d, i, n>>) = ExpectedValue(j, e, <<d, i, n>>)

PassingVerdict == section.result = PASSED /\ OverallStatus(results) = PASSED
FailingVerdict == section.result = FAILED

EveryDeviceProbed == \A k \in 1..Len(devices) : devices[k] \in DOMAIN parsed_data

(* C2: round trip.  A testing run that follows a learning run which saved  *)
(* its observed tree, and that observes the same tree again, ends with no  *)
(* FAILED Result and the overall status PASSED.                            *)
C2_RoundTrip ==
    (/\ pc = "done"
     /\ mode = TESTING
     /\ prev = [mode |-> LEARNING, saved |-> TRUE]
     /\ current_state = parameters_file)
        => /\ ~HasStatus(results, FAILED)
           /\ OverallStatus(results) = PASSED
           /\ report.status = PASSED

C2_Witness ==
    /\ pc = "done"
    /\ mode = TESTING
    /\ prev = [mode |-> LEARNING, saved |-> TRUE]
    /\ current_state = parameters_file
    /\ expected_parameters = parameters_file
    /\ DOMAIN current_state = Devices
    /\ DOMAIN current_state["R1"] = {"Gi0/1"}
    /\ DOMAIN current_state["R1"]["Gi0/1"].neighbors = {"2.2.2.2", "3.3.3.3"}
    /\ DOMAIN current_state["R2"] = {}
    /\ calls.compare = 1
    /\ section.result = PASSED

(* C7: the overall status is PASSED for no Results, FAILED whenever a      *)
(* FAILED Result is present, and PASSED for Results that are all PASSED,   *)
(* INFO, SKIPPED or PASSX.                                                 *)
C7_OverallStatus ==
    pc = "collect" =>
        /\ results = <<>> => report.status = PASSED
        /\ HasStatus(results, FAILED) => report.status = FAILED
        /\ (\A k \in 1..Len(results) : results[k].status \in {PASSED, INFO, SKIPPED, PASSX})
              => report.status = PASSED

C7_Witness ==
    /\ pc = "collect"
    /\ Statuses(results) = <<PASSED, FAILED, INFO>>
    /\ report.status = FAILED

(* C8: a testing run whose loaded expected tree is empty holds exactly one *)
(* Result, the FAILED Result that tells to run learning mode first, and    *)
(* never calls compare.                                                    *)
C8_OnlyTheLearnFirstResult ==
    (/\ pc = "done"
     /\ mode = TESTING
     /\ calls.load = 1
     /\ expected_parameters = EmptyDict)
        => /\ results = <<Result(FAILED, MsgNoExpected)>>
           /\ calls.compare = 0

(* C9, as claimed: a testing run that loaded the expected tree ends with a *)
(* passing verdict exactly if every expected device, interface and         *)
(* neighbor is in the current state with the expected IP address.          *)
C9_PassIffExpectedSatisfied ==
    (pc = "done" /\ mode = TESTING /\ calls.load = 1)
        => /\ PassingVerdict
                <=> ExpectedSatisfied(job, current_state, expected_parameters)
           /\ ~ExpectedSatisfied(job, current_state, expected_parameters)
                => FailingVerdict

(* C9, amended: a testing run ends with a passing verdict exactly if every *)
(* target device has a probe result, the loaded expected tree is not       *)
(* empty, and every expected device, interface and neighbor is in the      *)
(* current state with the expected IP address; otherwise it ends with a    *)
(* failing verdict.                                                        *)
C9_PassIffProbedLearnedAndSatisfied ==
    (pc = "done" /\ mode = TESTING)
        => LET expected == load_parameters_from_file(parameters_file)
               met == /\ EveryDeviceProbed
                      /\ expected # EmptyDict
                      /\ ExpectedSatisfied(job, current_state, expected)
           IN  /\ PassingVerdict <=> met
               /\ ~met => FailingVerdict

C9_Witness ==
    /\ pc = "done"
    /\ mode = TESTING
    /\ PassingVerdict
    /\ calls.compare = 1
    /\ DOMAIN expected_parameters = {"R1"}
    /\ DOMAIN expected_parameters["R1"] = {"Gi0/1", "Gi0/2"}
    /\ DOMAIN ExpectedNeighbors(expected_parameters, "R1", "Gi0/1") = {"2.2.2.2"}
    /\ DOMAIN current_state = Devices
    /\ DOMAIN current_state["R1"]["Gi0/1"].neighbors = {"2.2.2.2", "3.3.3.3"}

---------------------------------------------------------------------------
(* SpecGather: gather_current_state of either job applied, on an empty     *)
(* collector, to every testbed and every outcome of the probe: a device    *)
(* without a result, data without "interfaces" or with none, an interface  *)
(* without "neighbors" or with none, a neighbor record with or without the *)
(* checked attribute.                                                      *)

ProbeNeighborRecords(j) == AttributeMaps(j) \cup {EmptyDict}

ProbeNeighborMaps(j, d, i) ==
    UNION {[S -> ProbeNeighborRecords(j)] : S \in SUBSET NeighborsOf(d, i)}

ProbeInterfaceEntries(j, d, i) ==
    {EmptyDict} \cup {[neighbors |-> nm] : nm \in ProbeNeighborMaps(j, d, i)}

\* The dicts over the interfaces todo of device d, built key by key.
RECURSIVE ProbeInterfaceMapsOver(_, _, _)
ProbeInterfaceMapsOver(j, d, todo) ==
    IF todo = <<>> THEN {EmptyDict}
    ELSE LET rest == ProbeInterfaceMapsOver(j, d, Tail(todo))
         IN  rest \cup {Put(im, Head(todo), entry) :
                           im \in rest, entry \in ProbeInterfaceEntries(j, d, Head(todo))}

ProbeInterfaceMaps(j, d) ==
    ProbeInterfaceMapsOver(j, d, SelectSeq(InterfaceOrder, LAMBDA i : i \in InterfacesOf(d)))

ProbeDeviceData(j, d) ==
    {EmptyDict} \cup {[interfaces |-> im] : im \in ProbeInterfaceMaps(j, d)}

\* The dicts over the devices todo, built key by key.
RECURSIVE ProbeParsedDataOver(_, _)
ProbeParsedDataOver(j, todo) ==
    IF todo = <<>> THEN {EmptyDict}
    ELSE LET rest == ProbeParsedDataOver(j, Tail(todo))
         IN  rest \cup {Put(pd, Head(todo), data) :
                           pd \in rest, data \in ProbeDeviceData(j, Head(todo))}

ProbeParsedData(j) == ProbeParsedDataOver(j, DeviceOrder)

ProbeParsedDataIP == ProbeParsedData("ip_addresses")
ProbeParsedDataStatus == ProbeParsedData("status")

InitGather ==
    /\ job \in Jobs
    /\ pc = "gather"
    /\ mode = "none"
    /\ devices \in Testbeds
    /\ parsed_data \in {pd \in (IF job = "ip_addresses" THEN ProbeParsedDataIP
                                                       ELSE ProbeParsedDataStatus) :
                           DOMAIN pd \subseteq Range(devices)}
    /\ parameters_file = Unused
    /\ current_state = Unset
    /\ expected_parameters = Unused
    /\ results = <<>>
    /\ section = NoSignal
    /\ calls = NoCalls
    /\ saved = FALSE
    /\ report = Unused
    /\ prev = Unused

\* gather_current_state(testbed_adapter); current_state stays Unset when a
\* result signal ended the section before the function returned.
CallGather ==
    /\ pc = "gather"
    /\ LET w == gather_current_state(job, Walk(results), devices, parsed_data)
       IN  /\ results' = w.results
           /\ section' = w.signal
           /\ current_state' = IF Running(w) THEN w.all_devices_data ELSE Unset
    /\ pc' = "gathered"
    /\ UNCHANGED <<job, mode, devices, parsed_data, parameters_file,
                   expected_parameters, calls, saved, report, prev>>

NextGather == CallGather

SpecGather == InitGather /\ [][NextGather]_vars

\* gather_current_state returned a tree.
Returned == current_state # Unset

\* The target devices with a probe result.
Probed == {d \in Range(devices) : d \in DOMAIN parsed_data}

\* The interfaces and the neighbors the probe of device d lists.
ProbedInterfaces(d) ==
    IF "interfaces" \in DOMAIN parsed_data[d]
    THEN DOMAIN parsed_data[d]["interfaces"] ELSE {}

ProbedNeighborsOf(d, i) ==
    IF "neighbors" \in DOMAIN parsed_data[d]["interfaces"][i]
    THEN DOMAIN parsed_data[d]["interfaces"][i]["neighbors"] ELSE {}

ProbedNeighbors ==
    {p \in Devices \X Range(InterfaceOrder) \X Range(NeighborOrder) :
        /\ p[1] \in Probed
        /\ p[2] \in ProbedInterfaces(p[1])
        /\ p[3] \in ProbedNeighborsOf(p[1], p[2])}

\* The index of device d in the testbed.
DeviceIndex(d) == CHOOSE k \in 1..Len(devices) : devices[k] = d

(* C14: for every target device without a probe result, gather appends     *)
(* exactly one FAILED Result naming the device, returns a tree that lacks  *)
(* the device, and still collects every later device that has a probe      *)
(* result.                                                                 *)
C14_MissingProbeFailContinue ==
    pc = "gathered" =>
        \A d \in Range(devices) \ Probed :
            /\ Count(results, Result(FAILED, MsgNoData(d))) = 1
            /\ Returned
            /\ d \notin DOMAIN current_state
            /\ \A d2 \in Probed :
                 DeviceIndex(d2) > DeviceIndex(d) => d2 \in DOMAIN current_state

(* C15: for every target device whose probe result has no "interfaces" key *)
(* or an empty one, the returned tree holds the device with an empty       *)
(* InterfaceMap, exactly one INFO Result is appended for it, and no FAILED *)
(* Result names it.                                                        *)
C15_NoInterfacesIsInfo ==
    pc = "gathered" =>
        \A d \in Probed :
            ProbedInterfaces(d) = {} =>
                /\ Returned
                /\ d \in DOMAIN current_state
                /\ current_state[d] = EmptyDict
                /\ Count(results, Result(INFO, MsgNoInterfaces(d))) = 1
                /\ \A k \in 1..Len(results) :
                     (results[k].status = FAILED
                        => ~Names(results[k].message, "device_name", d))

(* C16: every interface of the tree gather returns has at least one        *)
(* neighbor: a probed interface without "neighbors" or with none is not in *)
(* the tree and has no Result (the Results are one per device and one per  *)
(* probed neighbor), while a device without interfaces is kept with an     *)
(* empty InterfaceMap.                                                     *)
C16_NoEmptyInterfaceInTree ==
    (pc = "gathered" /\ Returned) =>
        /\ \A d \in DOMAIN current_state : \A i \in DOMAIN current_state[d] :
              DOMAIN current_state[d][i]["neighbors"] # {}
        /\ \A d \in Probed :
              /\ d \in DOMAIN current_state
              /\ \A i \in ProbedInterfaces(d) :
                    ProbedNeighborsOf(d, i) = {} => i \notin DOMAIN current_state[d]
              /\ ProbedInterfaces(d) = {} => current_state[d] = EmptyDict
        /\ Len(results) = Len(devices) + Cardinality(ProbedNeighbors)

C16_Witness ==
    /\ pc = "gathered"
    /\ Returned
    /\ devices = <<"R1", "R2">>
    /\ ProbedInterfaces("R1") = {"Gi0/1", "Gi0/2"}
    /\ "neighbors" \in DOMAIN parsed_data["R1"]["interfaces"]["Gi0/1"]
    /\ ProbedNeighborsOf("R1", "Gi0/1") = {}
    /\ ProbedNeighborsOf("R1", "Gi0/2") = {"2.2.2.2"}
    /\ DOMAIN current_state["R1"] = {"Gi0/2"}
    /\ ProbedInterfaces("R2") = {}
    /\ current_state["R2"] = EmptyDict
    /\ Len(results) = 3

---------------------------------------------------------------------------
(* Properties of the whole compare walk (SpecCompare). *)

\* The expected interfaces (d, i) under a device the observed tree holds,
\* and those of them the observed tree holds as well.
ExpectedInterfaces(o, e) ==
    {p \in Devices \X Range(InterfaceOrder) :
        /\ p[1] \in DOMAIN e /\ p[1] \in DOMAIN o
        /\ p[2] \in DOMAIN e[p[1]]}

FoundInterfaces(o, e) ==
    {p \in ExpectedInterfaces(o, e) : p[2] \in DOMAIN o[p[1]]}

\* The expected neighbors (d, i, n) under an interface the observed tree holds.
ExpectedNeighborsOfFound(o, e) ==
    {p \in Devices \X Range(InterfaceOrder) \X Range(NeighborOrder) :
        /\ <<p[1], p[2]>> \in FoundInterfaces(o, e)
        /\ p[3] \in DOMAIN ExpectedNeighbors(e, p[1], p[2])}

\* What differs between the expected and the observed tree: the missing
\* devices, interfaces and neighbors, and the neighbors with another value.
Discrepancies(j, o, e) ==
    {<<d>> : d \in DOMAIN e \ DOMAIN o}
    \cup (ExpectedInterfaces(o, e) \ FoundInterfaces(o, e))
    \cup {p \in ExpectedNeighborsOfFound(o, e) :
            \/ p \notin FoundNeighbors(o, e)
            \/ ObservedValue(j, o, p) # ExpectedValue(j, e, p)}

(* C11: fail-continue.  After compare, no result signal has ended the walk, *)
(* every expected device has its device-level Result, every expected        *)
(* interface under a found device its interface-level Result, and every     *)
(* expected neighbor under a found interface its neighbor-level Result,     *)
(* however many FAILED Results were appended.                               *)
C11_FailContinue ==
    pc = "compared" =>
        LET o == current_state
            e == expected_parameters
            rs == Range(results)
        IN  /\ section = NoSignal
            /\ \A d \in DOMAIN e :
                  IF d \in DOMAIN o
                  THEN Result(PASSED, MsgDeviceFound(d)) \in rs
                  ELSE Result(FAILED, MsgDeviceNotFound(d)) \in rs
            /\ \A p \in ExpectedInterfaces(o, e) :
                  IF p \in FoundInterfaces(o, e)
                  THEN Result(PASSED, MsgInterfaceFound(job, p[2], p[1])) \in rs
                  ELSE Result(FAILED, MsgInterfaceNotFound(p[2], p[1])) \in rs
            /\ \A p \in ExpectedNeighborsOfFound(o, e) :
                  IF p \notin FoundNeighbors(o, e)
                  THEN Result(FAILED, MsgNeighborNotFound(p[3], p[2], p[1])) \in rs
                  ELSE IF ObservedValue(job, o, p) # ExpectedValue(job, e, p)
                  THEN Result(FAILED, MsgNeighborMismatch(job, p[3], p[2],
                                  ObservedValue(job, o, p), ExpectedValue(job, e, p))) \in rs
                  ELSE Result(PASSED, MsgNeighborMatch(job, p[3],
                                  ObservedValue(job, o, p))) \in rs

(* C17: for every expected interface found in the observed tree compare    *)
(* appends exactly one INFO Result with the observed and the expected      *)
(* neighbor count (so there are as many INFO Results as found interfaces), *)
(* and a difference of the counts alone never yields a FAILED Result:      *)
(* there are no more FAILED Results than missing devices, interfaces and   *)
(* neighbors and mismatching values.                                       *)
C17_CountIsInformational ==
    pc = "compared" =>
        LET o == current_state
            e == expected_parameters
        IN  /\ CountStatusOf(results, INFO) = Cardinality(FoundInterfaces(o, e))
            /\ \A p \in FoundInterfaces(o, e) :
                  Result(INFO, MsgNeighborCount(o[p[1]][p[2]]["neighbors"],
                                                ExpectedNeighbors(e, p[1], p[2])))
                     \in Range(results)
            /\ CountStatusOf(results, FAILED) <= Cardinality(Discrepancies(job, o, e))

---------------------------------------------------------------------------
(* Properties of the Result trail and of the branches of a run (Spec).     *)

IsPrefix(s, t) == Len(s) <= Len(t) /\ \A k \in 1..Len(s) : s[k] = t[k]

RECURSIVE Concat(_)
Concat(ss) == IF ss = <<>> THEN <<>> ELSE Head(ss) \o Concat(Tail(ss))

\* The Results of a walk in the order device, interface, neighbor, listed
\* from the two trees: per expected device its Result, then per expected
\* interface its Result, the count Result and the Results of its neighbors.
NeighborListing(j, o, e, d, i) ==
    LET ns == SelectSeq(NeighborOrder,
                        LAMBDA n : n \in DOMAIN ExpectedNeighbors(e, d, i))
        one(n) ==
            IF n \notin DOMAIN o[d][i]["neighbors"]
            THEN Result(FAILED, MsgNeighborNotFound(n, i, d))
            ELSE IF ObservedValue(j, o, <<d, i, n>>) # ExpectedValue(j, e, <<d, i, n>>)
            THEN Result(FAILED, MsgNeighborMismatch(j, n, i,
                                    ObservedValue(j, o, <<d, i, n>>),
                                    ExpectedValue(j, e, <<d, i, n>>)))
            ELSE Result(PASSED, MsgNeighborMatch(j, n, ObservedValue(j, o, <<d, i, n>>)))
    IN  [k \in 1..Len(ns) |-> one(ns[k])]

InterfaceListing(j, o, e, d, i) ==
    IF i \notin DOMAIN o[d]
    THEN <<Result(FAILED, MsgInterfaceNotFound(i, d))>>
    ELSE <<Result(PASSED, MsgInterfaceFound(j, i, d)),
           Result(INFO, MsgNeighborCount(o[d][i]["neighbors"],
                                         ExpectedNeighbors(e, d, i)))>>
         \o NeighborListing(j, o, e, d, i)

DeviceListing(j, o, e, d) ==
    IF d \notin DOMAIN o
    THEN <<Result(FAILED, MsgDeviceNotFound(d))>>
    ELSE LET is == SelectSeq(InterfaceOrder, LAMBDA i : i \in DOMAIN e[d])
         IN  <<Result(PASSED, MsgDeviceFound(d))>>
             \o Concat([k \in 1..Len(is) |-> InterfaceListing(j, o, e, d, is[k])])

WalkOrderListing(j, o, e) ==
    LET ds == SelectSeq(DeviceOrder, LAMBDA d : d \in DOMAIN e)
    IN  Concat([k \in 1..Len(ds) |-> DeviceListing(j, o, e, ds[k])])

(* C13: the Result sequence is append-only and keeps call order: within a  *)
(* run every step leaves the Results it found as a prefix; the Results the *)
(* compare step appends are, in this order, a prefix of the listing of the *)
(* walk by device, interface (found, then count, then neighbors) and       *)
(* neighbor; and the report is given the Results in that same order.       *)
C13_WalkOrderKept ==
    [][/\ pc' # "gather" => IsPrefix(results, results')
       /\ pc = "compare" =>
            /\ Len(results') > Len(results)
            /\ IsPrefix(SubSeq(results', Len(results) + 1, Len(results')),
                        WalkOrderListing(job, current_state, expected_parameters)
                          \o <<Result(PASSED, MsgAllVerified)>>)
       /\ (pc' = "done" /\ mode = TESTING) => report'.results = results]_vars

C13_Witness ==
    /\ pc = "done"
    /\ mode = TESTING
    /\ calls.compare = 1
    /\ DOMAIN expected_parameters = Devices
    /\ DOMAIN expected_parameters["R1"] = {"Gi0/1", "Gi0/2"}
    /\ DOMAIN ExpectedNeighbors(expected_parameters, "R1", "Gi0/1") = {"2.2.2.2", "3.3.3.3"}
    /\ DOMAIN expected_parameters["R2"] = {"Gi0/1"}
    /\ ExpectedSatisfied(job, current_state, expected_parameters)
    /\ section.result = PASSED
    /\ report.results = results
    /\ Len(results) >= 12

(* C12: in a learning run whose save returned false, a FAILED Result about *)
(* the failed save is in the collector, the outcome of the run is a        *)
(* failure (the section failed and the overall status is FAILED), save was *)
(* called exactly once and compare was not called.                         *)
C12_SaveFailureIsReported ==
    (/\ pc = "done"
     /\ mode = LEARNING
     /\ calls.save >= 1
     /\ ~saved)
        => /\ Result(FAILED, MsgSaveFailed) \in Range(results)
           /\ section.result = FAILED
           /\ OverallStatus(results) = FAILED
           /\ calls.save = 1
           /\ calls.compare = 0

(* C18: the mode is fixed for a run and selects one branch.  A learning    *)
(* run never loads and never compares, and saves once when it reaches its  *)
(* branch; a testing run never saves, so no step of a testing run changes  *)
(* the persisted tree; the compare step changes neither tree it is given.  *)
C18_ModeSelectsOneBranch ==
    /\ [](/\ mode = LEARNING =>
               /\ calls.load = 0 /\ calls.compare = 0
               /\ expected_parameters = Unset
               /\ (pc \in {"cleanup", "done"} /\ current_state # Unset) => calls.save = 1
          /\ mode = TESTING =>
               /\ calls.save = 0 /\ ~saved
               /\ (pc \in {"cleanup", "done"} /\ current_state # Unset) => calls.load = 1)
    /\ [][/\ pc \notin {"idle", "done"} => mode' = mode
          /\ mode' = TESTING => parameters_file' = parameters_file
          /\ (saved' /\ ~saved) => parameters_file' = current_state
          /\ calls'.compare # calls.compare /\ pc = "compare" =>
               /\ current_state' = current_state
               /\ expected_parameters' = expected_parameters]_vars

C18_Witness ==
    /\ pc = "done"
    /\ mode = TESTING
    /\ prev = [mode |-> TESTING, saved |-> FALSE]
    /\ calls = [save |-> 0, load |-> 1, compare |-> 1]
    /\ parameters_file = expected_parameters
    /\ current_state # expected_parameters
    /\ HasStatus(results, FAILED)

(* C19: at the end of a run the collector holds one overall status and a   *)
(* Result for every check that was performed, passed or failed: for the    *)
(* save, for the missing expected parameters and for the verdict of the    *)
(* comparison as well as for the checks of gather and compare.             *)
C19_EveryCheckHasItsResult ==
    pc = "done" =>
        /\ OverallStatus(results) \in ResultStatus
        /\ section.result \in {PASSED, FAILED}
        /\ (calls.save = 1 /\ saved) => Result(PASSED, MsgLearned) \in Range(results)
        /\ (calls.save = 1 /\ ~saved) => Result(FAILED, MsgSaveFailed) \in Range(results)
        /\ (calls.load = 1 /\ expected_parameters = EmptyDict)
              => Result(FAILED, MsgNoExpected) \in Range(results)
        /\ (calls.compare = 1 /\ section.result = PASSED)
              => Result(PASSED, MsgAllVerified) \in Range(results)

(* C20: whenever the section was ended by self.failed(msg), a FAILED       *)
(* Result with the same message is in the collector.                       *)
C20_FailureSignalHasItsResult ==
    section.result = FAILED => Result(FAILED, section.reason) \in Range(results)

---------------------------------------------------------------------------
(* Properties of the verdict of a testing run (Spec), of the number of     *)
(* Results of compare (SpecCompare) and of the Results of gather           *)
(* (SpecGather).                                                           *)

\* The summary of a testing run: its PASSED Result, or its self.passed call.
SummaryPassed ==
    \/ Result(PASSED, MsgAllVerified) \in Range(results)
    \/ section = [result |-> PASSED, reason |-> MsgAllVerified]

(* C21: in a testing run of the IP job the summary PASSED Result "All OSPF *)
(* neighbor IP addresses on all devices verified successfully" and the     *)
(* self.passed call that goes with it occur only if compare appended no    *)
(* FAILED Result: no state of a run that called compare holds a FAILED     *)
(* Result together with the summary.  (A run reaches compare only when     *)
(* gather appended no FAILED Result, so every FAILED Result is compare's.) *)
C21_NoSummaryAfterFailure ==
    (mode = TESTING /\ calls.compare = 1) =>
        /\ ~(HasStatus(results, FAILED) /\ SummaryPassed)
        /\ ~ExpectedSatisfied(job, current_state, expected_parameters) => ~SummaryPassed

C21_Witness ==
    /\ pc = "done"
    /\ mode = TESTING
    /\ calls.compare = 1
    /\ HasStatus(results, FAILED)
    /\ section.result = FAILED
    /\ DOMAIN expected_parameters = Devices
    /\ DOMAIN current_state = Devices
    /\ FoundNeighbors(current_state, expected_parameters) # {}
    /\ \E p \in FoundNeighbors(current_state, expected_parameters) :
          Result(FAILED, MsgNeighborMismatch(job, p[3], p[2],
                    ObservedValue(job, current_state, p),
                    ExpectedValue(job, expected_parameters, p))) \in Range(results)

(* C22: compare appends one Result per check: the number of Results is the *)
(* number of expected devices, plus the expected interfaces under found    *)
(* devices, plus the found interfaces (their count Results), plus the      *)
(* expected neighbors under found interfaces.                              *)
C22_OneResultPerCheck ==
    pc = "compared" =>
        LET o == current_state
            e == expected_parameters
        IN  Len(results) = Cardinality(DOMAIN e)
                           + Cardinality(ExpectedInterfaces(o, e))
                           + Cardinality(FoundInterfaces(o, e))
                           + Cardinality(ExpectedNeighborsOfFound(o, e))

\* The Result gather owes device d, and how many device-level Results d has.
DeviceLevelResult(d) ==
    IF d \notin Probed THEN Result(FAILED, MsgNoData(d))
    ELSE IF ProbedInterfaces(d) = {} THEN Result(INFO, MsgNoInterfaces(d))
    ELSE Result(PASSED, MsgGathered(d))

DeviceLevelResults(d) ==
    Count(results, Result(FAILED, MsgNoData(d)))
    + Count(results, Result(INFO, MsgNoInterfaces(d)))
    + Count(results, Result(PASSED, MsgGathered(d)))

(* C23: after gather every target device has exactly one device-level      *)
(* Result (FAILED without probe result, INFO without interfaces, PASSED    *)
(* otherwise), the keys of the returned tree are the target devices with a *)
(* probe result, every neighbor of the tree has exactly the checked        *)
(* attribute, "" when the probe record lacks it, and a device whose probed *)
(* interfaces all lack neighbors is in the tree with an empty InterfaceMap *)
(* and has the PASSED Result.                                              *)
C23_GatherResultsAndTree ==
    pc = "gathered" =>
        /\ \A d \in Range(devices) :
              /\ DeviceLevelResults(d) = 1
              /\ DeviceLevelResult(d) \in Range(results)
        /\ Returned
        /\ DOMAIN current_state = Probed
        /\ \A d \in DOMAIN current_state : \A i \in DOMAIN current_state[d] :
              \A n \in DOMAIN current_state[d][i]["neighbors"] :
                 LET record == parsed_data[d]["interfaces"][i]["neighbors"][n]
                     attrs == current_state[d][i]["neighbors"][n]
                 IN  /\ DOMAIN attrs = {Attribute(job)}
                     /\ attrs[Attribute(job)] =
                          IF Attribute(job) \in DOMAIN record
                          THEN record[Attribute(job)] ELSE ""
        /\ \A d \in Probed :
              (/\ ProbedInterfaces(d) # {}
               /\ \A i \in ProbedInterfaces(d) : ProbedNeighborsOf(d, i) = {})
                 => /\ current_state[d] = EmptyDict
                    /\ Result(PASSED, MsgGathered(d)) \in Range(results)

====
